---- MODULE Spec2Model ----
(***************************************************************************)
(* The 4x4 sliding-block puzzle solver of src/agent/main.cc: boards,       *)
(* PuzzleState nodes linked by parent pointers, make_next_state with its   *)
(* per-branch cycle check, the breadth-first searcher, the A* searcher     *)
(* with calc_score, and the path reconstruction of print_search.           *)
(*                                                                         *)
(* Pointers are indices into the sequence `states` (0 is the empty         *)
(* PuzzleStatePtr).  Boards are functions over 0..15, as std::array.       *)
(***************************************************************************)
EXTENDS Integers, Sequences, FiniteSets, TLC

\* ------------------------------------------------------------------ bounds
\* Number of block labels a start board may hold.
MaxBlocks == 2
\* Goal boards are drawn from the boards within this many moves of the start.
MaxDepth == 3
\* Expansions after which a search that need not exhaust its frontier is cut.
MaxAttempts == 8

\* ------------------------------------------------- constants of the program
GridSide == 4
BoardSize == 16
LEFT == 0
UP == 1
RIGHT == 2
DOWN == 3

Agent == "*"
Blank == " "
\* The block labels of main's start board, and the cells they stand on there.
Labels == <<"a", "b", "c">>
LabelCell == <<0, 9, 11>>
\* A label no start board holds.
AbsentLabel == "x"

Cells == 0..(BoardSize - 1)
Moves == {LEFT, UP, RIGHT, DOWN}

VARIABLES
    start,      \* the caller's start board
    goal,       \* the caller's goal board
    hashKind,   \* how std::hash behaves on the boards at hand
    build,      \* how std::abs(size_t) came out of the build
    tie,        \* which of several equal-score entries the priority queue yields
    pc,         \* where the driver is
    states,     \* every PuzzleState created by the running search
    search,     \* breadthFirst's deque of pointers, front first
    searchPQ,   \* aStar's priority queue, entries in insertion order
    attempts,   \* the running search's expansion counter
    bfResult,   \* what breadthFirst returned
    asResult    \* what aStar returned

vars == <<start, goal, hashKind, build, tie, pc, states, search, searchPQ,
          attempts, bfResult, asResult>>

\* Op applied to the value of e, with e evaluated once.
With(e, Op(_)) == CHOOSE v \in {Op(x) : x \in {e}} : TRUE

\* ------------------------------------------------------------------ boards
\* std::find(board.begin(), board.end(), c) - board.begin()
Find(board, c) ==
    IF \E i \in Cells : board[i] = c
    THEN CHOOSE i \in Cells : board[i] = c /\ \A j \in Cells : j < i => board[j] # c
    ELSE BoardSize

RECURSIVE Pow(_, _)
Pow(b, e) == IF e = 0 THEN 1 ELSE b * Pow(b, e - 1)

\* A hash without collisions on boards where every non-blank symbol occurs
\* at most once: the positions of the agent and of each label, in base 17.
PositionalHash(board) ==
    Find(board, Agent)
    + Pow(BoardSize + 1, 1) * Find(board, Labels[1])
    + Pow(BoardSize + 1, 2) * Find(board, Labels[2])
    + Pow(BoardSize + 1, 3) * Find(board, Labels[3])
    + Pow(BoardSize + 1, 4) * Find(board, AbsentLabel)

\* Two hashes under which different boards collide: the agent's cell alone,
\* and the sum of the 16 character codes (equal for all rearrangements).
AgentCellHash(board) == Find(board, Agent)

Code(c) ==
    CASE c = " " -> 32
      [] c = "*" -> 42
      [] c = "a" -> 97
      [] c = "b" -> 98
      [] c = "c" -> 99
      [] OTHER -> 120

RECURSIVE SumCodes(_, _)
SumCodes(board, i) ==
    IF i = BoardSize THEN 0 ELSE Code(board[i]) + SumCodes(board, i + 1)

ChecksumHash(board) == SumCodes(board, 0)

\* A board from its 16 characters, row-major as do_searh copies them.
FromCells(t) == [i \in Cells |-> t[i + 1]]

\* Two boards with the same std::hash<std::string> in libstdc++ on x86-64,
\* 10646260420811438989: "*hbBvsn ofpdzn  " and "*lBginaCgymibj  ".
CollisionA ==
    FromCells(<<"*", "h", "b", "B", "v", "s", "n", " ",
                "o", "f", "p", "d", "z", "n", " ", " ">>)
CollisionB ==
    FromCells(<<"*", "l", "B", "g", "i", "n", "a", "C",
                "g", "y", "m", "i", "b", "j", " ", " ">>)

\* The hash of that build where the two boards are among the inputs.
LibstdcxxHash(board) ==
    IF board = CollisionB THEN PositionalHash(CollisionA)
    ELSE PositionalHash(board)

\* std::hash<std::string> over the 16 characters.  Its value is fixed by the
\* build; hashKind says which kind of function it is on the boards at hand.
make_hash(board) ==
    CASE hashKind = "perfect" -> PositionalHash(board)
      [] hashKind = "libstdcxx" -> LibstdcxxHash(board)
      [] hashKind = "agentcell" -> AgentCellHash(board)
      [] OTHER -> ChecksumHash(board)

\* ------------------------------------------------------------- PuzzleState
\* new PuzzleState(parent, state): the hash is computed once and cached.
PuzzleState(parent, state) ==
    [state_ |-> state, hash_ |-> make_hash(state), parent_ |-> parent]

getState(p) == states[p].state_
getParent(p) == states[p].parent_
getHash(p) == states[p].hash_

TargetCell_no_right_edge(index, move) ==
    LET x == index % GridSide
        y == index \div GridSide
    IN  CASE move = LEFT  -> IF x = 0 THEN BoardSize ELSE y * GridSide + (x - 1)
          [] move = RIGHT -> IF index = BoardSize - 1 THEN BoardSize ELSE index + 1
          [] move = UP    -> IF y = 0 THEN BoardSize ELSE (y - 1) * GridSide + x
          [] OTHER        -> IF y = GridSide - 1 THEN BoardSize ELSE (y + 1) * GridSide + x

\* The cell the agent moves to, or BoardSize when the move leaves the grid
\* (the switch of make_next_state).
TargetCell(index, move) ==
    LET x == index % GridSide
        y == index \div GridSide
    IN  CASE move = LEFT  -> IF x = 0 THEN BoardSize ELSE y * GridSide + (x - 1)
          [] move = RIGHT -> IF x = GridSide - 1 THEN BoardSize ELSE y * GridSide + (x + 1)
          [] move = UP    -> IF y = 0 THEN BoardSize ELSE (y - 1) * GridSide + x
          [] OTHER        -> IF y = GridSide - 1 THEN BoardSize ELSE (y + 1) * GridSide + x

SwapCells_copy_agent(board, i, j) == [board EXCEPT ![j] = board[i]]

SwapCells_agent_only(board, i, j) == [board EXCEPT ![i] = Blank, ![j] = board[i]]

\* std::swap(state[index], state[newIndex])
SwapCells(board, i, j) == [board EXCEPT ![i] = board[j], ![j] = board[i]]

HashOnChain_first_hit(hash, ansector) == ansector # 0

HashOnChain_global(hash, ansector) ==
    \E n \in 1..Len(states) : getHash(n) = hash

\* The do-while of make_next_state: is `hash` the cached hash of `ansector`
\* or of one of its ancestors?
RECURSIVE HashOnChain(_, _)
HashOnChain(hash, ansector) ==
    IF ansector = 0 THEN FALSE
    ELSE IF hash = getHash(ansector) THEN TRUE
    ELSE HashOnChain(hash, getParent(ansector))

CycleWalkStart_skip_predecessor(parent) ==
    IF getParent(parent) = 0 THEN 0 ELSE getParent(getParent(parent))

\* Where the ancestor walk of the cycle check starts.
CycleWalkStart(parent) == getParent(parent)

\* make_next_state(parent, move): <<>> for the empty pointer, else <<s>>
\* with s the PuzzleState it allocates.
make_next_state(parent, move) ==
    With(Find(getState(parent), Agent), LAMBDA index :
      With(TargetCell(index, move), LAMBDA newIndex :
        IF newIndex = BoardSize THEN <<>>
        ELSE With(SwapCells(getState(parent), index, newIndex), LAMBDA state :
               With(make_hash(state), LAMBDA hash :
                 IF HashOnChain(hash, CycleWalkStart(parent)) THEN <<>>
                 ELSE <<PuzzleState(parent, state)>>))))

\* -------------------------------------------------------- print_search
\* The vector `solution` of print_search: the boards from `finish` back to
\* the root, <<>> for the empty pointer.
RECURSIVE solutionIn(_, _)
solutionIn(sts, stage) ==
    IF stage = 0 THEN <<>>
    ELSE <<sts[stage].state_>> \o solutionIn(sts, sts[stage].parent_)

solution(stage) == solutionIn(states, stage)

\* for_each(solution.rbegin(), solution.rend(), ...): root first.
Reverse(s) == [i \in 1..Len(s) |-> s[Len(s) + 1 - i]]

\* What a searcher's caller holds once it has returned `finish`, a pointer
\* into sts, after n completed expansions.
Returned(sts, finish, n) ==
    [done |-> TRUE, found |-> finish # 0, solution |-> solutionIn(sts, finish),
     attempts |-> n, created |-> Len(sts)]

NotReturned ==
    [done |-> FALSE, found |-> FALSE, solution |-> <<>>, attempts |-> 0,
     created |-> 0]

\* ----------------------------------------------------------- breadthFirst
NumMoves == 4

\* The deque operations breadthFirst uses; the front is the head.
push_front_at_back(dq, p) == Append(dq, p)

push_front(dq, p) == <<p>> \o dq

back(dq) == dq[Len(dq)]

pop_back(dq) == SubSeq(dq, 1, Len(dq) - 1)

\* The for loop over the four moves in breadthFirst, from move m on: the
\* states created, the deque, and the pointer returned from inside the loop
\* (0 when the loop runs to its end).
RECURSIVE BreadthFirstMoves_no_break(_, _, _, _, _)
BreadthFirstMoves_no_break(parent, m, sts, dq, goalHash) ==
    IF m = NumMoves THEN [states |-> sts, search |-> dq, ret |-> 0]
    ELSE With(make_next_state(parent, m), LAMBDA next :
             IF next = <<>>
             THEN BreadthFirstMoves_no_break(parent, m + 1, sts, dq, goalHash)
             ELSE IF next[1].hash_ = goalHash
             THEN [BreadthFirstMoves_no_break(parent, m + 1, Append(sts, next[1]),
                                              dq, goalHash)
                      EXCEPT !.ret = Len(sts) + 1]
             ELSE BreadthFirstMoves_no_break(parent, m + 1, Append(sts, next[1]),
                                    push_front(dq, Len(sts) + 1), goalHash))

RECURSIVE BreadthFirstMoves(_, _, _, _, _)
BreadthFirstMoves(parent, m, sts, dq, goalHash) ==
    IF m = NumMoves THEN [states |-> sts, search |-> dq, ret |-> 0]
    ELSE With(make_next_state(parent, m), LAMBDA next :
             IF next = <<>>
             THEN BreadthFirstMoves(parent, m + 1, sts, dq, goalHash)
             ELSE IF next[1].hash_ = goalHash
             THEN [states |-> Append(sts, next[1]), search |-> dq,
                   ret |-> Len(sts) + 1]
             ELSE BreadthFirstMoves(parent, m + 1, Append(sts, next[1]),
                                    push_front(dq, Len(sts) + 1), goalHash))

BreadthFirstEnter_no_start_test ==
    /\ pc = "bf_enter"
    /\ states' = <<PuzzleState(0, start)>>
    /\ attempts' = 0
    /\ search' = <<1>>
    /\ pc' = "bf_loop"
    /\ UNCHANGED <<start, goal, hashKind, build, tie, searchPQ, asResult, bfResult>>

\* breadthFirst up to the loop: the root is created and the start tested.
BreadthFirstEnter ==
    /\ pc = "bf_enter"
    /\ states' = <<PuzzleState(0, start)>>
    /\ attempts' = 0
    /\ IF make_hash(start) = make_hash(goal)
       THEN /\ bfResult' = Returned(states', 1, 0)
            /\ search' = <<>>
            /\ pc' = "as_enter"
       ELSE /\ search' = push_front(<<>>, 1)
            /\ pc' = "bf_loop"
            /\ UNCHANGED bfResult
    /\ UNCHANGED <<start, goal, hashKind, build, tie, searchPQ, asResult>>

\* One iteration of breadthFirst's while loop.
BreadthFirstLoop ==
    /\ pc = "bf_loop"
    /\ search # <<>>
    /\ \E r \in {BreadthFirstMoves(back(search), 0, states, pop_back(search),
                                     make_hash(goal))} :
           /\ states' = r.states
           /\ search' = r.search
           /\ IF r.ret # 0
              THEN /\ bfResult' = Returned(r.states, r.ret, attempts)
                   /\ pc' = "as_enter"
                   /\ UNCHANGED attempts
              ELSE /\ attempts' = attempts + 1
                   /\ UNCHANGED <<bfResult, pc>>
    /\ UNCHANGED <<start, goal, hashKind, build, tie, searchPQ, asResult>>

\* The deque is empty: breadthFirst returns the empty pointer.
BreadthFirstFail ==
    /\ pc = "bf_loop"
    /\ search = <<>>
    /\ bfResult' = Returned(states, 0, attempts)
    /\ pc' = "as_enter"
    /\ UNCHANGED <<start, goal, hashKind, build, tie, states, search, searchPQ,
                   attempts, asResult>>

\* -------------------------------------------------------------- calc_score
Abs(n) == IF n < 0 THEN -n ELSE n

\* ret += std::abs(indexP - i), the operands being size_t.  Where the call
\* resolves to a signed overload the term is |indexP - i|.  Where it resolves
\* to the floating overload (libstdc++ before GCC 7) a negative difference
\* has wrapped to about 2^64, and converting the sum back to unsigned is out
\* of range: the x86-64 conversion leaves 0 in ret.
AddAbs(b, ret, indexP, i) ==
    IF b = "signed" \/ indexP >= i THEN ret + Abs(indexP - i) ELSE 0

RECURSIVE ScoreFrom(_, _, _, _, _)
ScoreFrom(b, state, goalBoard, i, ret) ==
    IF i = BoardSize THEN ret
    ELSE LET c == goalBoard[i]
         IN  IF state[i] # c
             THEN ScoreFrom(b, state, goalBoard, i + 1,
                            AddAbs(b, ret, Find(state, c), i))
             ELSE ScoreFrom(b, state, goalBoard, i + 1, ret)

Score(b, state, goalBoard) == ScoreFrom(b, state, goalBoard, 0, 0)

calc_score(state, goalBoard) == Score(build, state, goalBoard)

\* Comp: lhs is ordered before (below) rhs in the priority queue.
Comp_less(lhs, rhs) == lhs[2] < rhs[2]

Comp(lhs, rhs) == lhs[2] > rhs[2]

\* search.top(): the position of an entry no other entry is ordered above.
\* Among several such entries the heap's layout decides; `tie` says whether
\* the one pushed first or the one pushed last comes out.
RECURSIVE TopFrom(_, _, _)
TopFrom(pq, k, best) ==
    IF k > Len(pq) THEN best
    ELSE IF Comp(pq[best], pq[k]) THEN TopFrom(pq, k + 1, k)
    ELSE IF ~Comp(pq[k], pq[best]) /\ tie = "newest" THEN TopFrom(pq, k + 1, k)
    ELSE TopFrom(pq, k + 1, best)

Top(pq) == TopFrom(pq, 2, 1)

\* search.pop()
Pop(pq, k) == SubSeq(pq, 1, k - 1) \o SubSeq(pq, k + 1, Len(pq))

\* ------------------------------------------------------------------ aStar
RECURSIVE AStarMoves(_, _, _, _, _)
AStarMoves(parent, m, sts, pq, goalHash) ==
    IF m = NumMoves THEN [states |-> sts, search |-> pq, ret |-> 0]
    ELSE With(make_next_state(parent, m), LAMBDA next :
             IF next = <<>>
             THEN AStarMoves(parent, m + 1, sts, pq, goalHash)
             ELSE IF next[1].hash_ = goalHash
             THEN [states |-> Append(sts, next[1]), search |-> pq,
                   ret |-> Len(sts) + 1]
             ELSE AStarMoves(parent, m + 1, Append(sts, next[1]),
                             Append(pq, <<Len(sts) + 1,
                                          calc_score(next[1].state_, goal)>>),
                             goalHash))

Builds == {"signed", "double"}
Ties == {"oldest", "newest"}

\* aStar up to the loop.
AStarEnter ==
    /\ pc = "as_enter"
    /\ states' = <<PuzzleState(0, start)>>
    /\ attempts' = 0
    /\ search' = <<>>
    /\ IF make_hash(start) = make_hash(goal)
       THEN /\ asResult' = Returned(states', 1, 0)
            /\ searchPQ' = <<>>
            /\ pc' = "done"
            /\ UNCHANGED <<build, tie>>
       ELSE /\ \E b \in Builds, t \in Ties :
                  /\ build' = b
                  /\ tie' = t
                  /\ searchPQ' = <<<<1, Score(b, start, goal)>>>>
            /\ pc' = "as_loop"
            /\ UNCHANGED asResult
    /\ UNCHANGED <<start, goal, hashKind, bfResult>>

\* One iteration of aStar's while loop.
AStarLoop ==
    /\ pc = "as_loop"
    /\ searchPQ # <<>>
    /\ \E k \in {Top(searchPQ)} :
       \E r \in {AStarMoves(searchPQ[k][1], 0, states, Pop(searchPQ, k),
                             make_hash(goal))} :
           /\ states' = r.states
           /\ searchPQ' = r.search
           /\ IF r.ret # 0
              THEN /\ asResult' = Returned(r.states, r.ret, attempts)
                   /\ pc' = "done"
                   /\ UNCHANGED attempts
              ELSE /\ attempts' = attempts + 1
                   /\ UNCHANGED <<asResult, pc>>
    /\ UNCHANGED <<start, goal, hashKind, build, tie, search, bfResult>>

\* The priority queue is empty: aStar returns the empty pointer.
AStarFail ==
    /\ pc = "as_loop"
    /\ searchPQ = <<>>
    /\ asResult' = Returned(states, 0, attempts)
    /\ pc' = "done"
    /\ UNCHANGED <<start, goal, hashKind, build, tie, states, search, searchPQ,
                   attempts, bfResult>>

\* ------------------------------------------------------------- the inputs
BlankBoard == [i \in Cells |-> Blank]

\* The first k labels on the cells they hold in main's start board.
RECURSIVE WithLabels(_, _)
WithLabels(board, k) ==
    IF k = 0 THEN board
    ELSE [WithLabels(board, k - 1) EXCEPT ![LabelCell[k]] = Labels[k]]

StartBoards ==
    {[WithLabels(BlankBoard, k) EXCEPT ![p] = Agent] :
        k \in 0..MaxBlocks, p \in Cells \ {LabelCell[j] : j \in 1..MaxBlocks}}

\* One legal move, stated on the grid: the agent changes places with an
\* orthogonally adjacent cell.
Row(i) == i \div GridSide
Col(i) == i % GridSide
Adjacent(p, q) == Abs(Row(p) - Row(q)) + Abs(Col(p) - Col(q)) = 1

LegalSuccessors(board) ==
    LET p == Find(board, Agent)
    IN  {[board EXCEPT ![p] = board[q], ![q] = board[p]] :
            q \in {c \in Cells : Adjacent(p, c)}}

\* The boards at most d legal moves away from a board of S.
RECURSIVE Within(_, _)
Within(S, d) ==
    IF d = 0 THEN S
    ELSE Within(S \cup UNION {LegalSuccessors(b) : b \in S}, d - 1)

HasBlocks(board) == \E i \in Cells : board[i] \notin {Agent, Blank}

\* The 16 boards that hold blanks and the agent only.
AgentOnlyBoards == {[BlankBoard EXCEPT ![p] = Agent] : p \in Cells}

\* A goal no move sequence reaches: it holds a label the start lacks.
UnreachableGoal(board) ==
    [board EXCEPT ![Find(board, Blank)] = AbsentLabel]

\* The start whose search for an unreachable goal is run until the frontier
\* is empty: blanks only, the agent on an inner cell.
ExhaustStart == [BlankBoard EXCEPT ![GridSide + 1] = Agent]

GoalBoards(s) ==
    Within({s}, MaxDepth)
    \cup (IF HasBlocks(s) THEN {} ELSE AgentOnlyBoards)
    \cup (IF s = ExhaustStart THEN {UnreachableGoal(s)} ELSE {})

\* A search that is run to its end however long it takes: the one for the
\* unreachable goal, and every search on boards of blanks and the agent.
Exhaustive ==
    \/ start = ExhaustStart /\ goal = UnreachableGoal(start)
    \/ start \in AgentOnlyBoards /\ goal \in AgentOnlyBoards

\* ------------------------------------------------------- the specification
NoSearchYet ==
    /\ build = "unset"
    /\ tie = "unset"
    /\ pc = "bf_enter"
    /\ states = <<>>
    /\ search = <<>>
    /\ searchPQ = <<>>
    /\ attempts = 0
    /\ bfResult = NotReturned
    /\ asResult = NotReturned

InitWith(kinds) ==
    /\ start \in StartBoards
    /\ goal \in GoalBoards(start)
    /\ hashKind \in kinds
    /\ NoSearchYet

\* std::hash without collisions on the boards at hand, as the build has it.
Init == InitWith({"perfect"})

\* std::hash with collisions among the boards at hand: the build's hash on
\* its two colliding boards, and two hashes that collide on the small boards.
InitCollide ==
    \/ /\ start \in {CollisionA, CollisionB}
       /\ goal \in {CollisionA, CollisionB} \ {start}
       /\ hashKind = "libstdcxx"
       /\ NoSearchYet
    \/ InitWith({"agentcell", "checksum"})

\* aStar's loop, cut after MaxAttempts expansions unless the search is one
\* that is run to its end.
AStarStep == (attempts < MaxAttempts \/ Exhaustive) /\ AStarLoop

\* do_searh runs a searcher on the pair; here both, one after the other.
Next ==
    \/ BreadthFirstEnter
    \/ BreadthFirstLoop
    \/ BreadthFirstFail
    \/ AStarEnter
    \/ AStarStep
    \/ AStarFail

Spec == Init /\ [][Next]_vars

SpecCollide == InitCollide /\ [][Next]_vars

\* A searcher that can take its next step takes it.
FairSpec == Spec /\ WF_vars(Next)

FairCollide == SpecCollide /\ WF_vars(Next)

\* ------------------------------------------------------------ the claims
\* The number of moves of a returned path.
MoveCount(result) == Len(result.solution) - 1

\* The least number of legal moves that lead from board s to board g, for
\* g reachable from s.
RECURSIVE MinMovesFrom(_, _, _)
MinMovesFrom(S, g, d) ==
    IF g \in S THEN d
    ELSE MinMovesFrom(S \cup UNION {LegalSuccessors(b) : b \in S}, g, d + 1)

MinMoves(s, g) == MinMovesFrom({s}, g, 0)

\* The goal holds a symbol the start lacks: no move sequence reaches it.
\* The other goals of the model are reachable.
GoalUnreachable == \E i \in Cells : \A j \in Cells : start[j] # goal[i]

GoalReachable == ~GoalUnreachable

\* C1: for a goal reachable from the start, the state breadthFirst returns
\* has a predecessor chain of exactly the least number of legal moves that
\* lead from the start board to the goal board.
C1_BreadthFirstShortest ==
    (pc = "as_enter" /\ GoalReachable) =>
        /\ bfResult.found
        /\ MoveCount(bfResult) = MinMoves(start, goal)

\* breadthFirst has returned a three-move path on a board with blocks, one
\* of which the agent has pushed off its cell.
C1_Witness ==
    /\ pc = "as_enter"
    /\ bfResult.found
    /\ MoveCount(bfResult) = MaxDepth
    /\ HasBlocks(start)
    /\ \E k \in 1..MaxBlocks : start[LabelCell[k]] # goal[LabelCell[k]]

\* C2: when both searchers have returned for a reachable goal, the path of
\* breadthFirst has no more moves than the path of aStar, under either
\* order of equal scores and either build of calc_score.
C2_BreadthFirstNotLonger ==
    (pc = "done" /\ GoalReachable) =>
        /\ bfResult.found
        /\ asResult.found
        /\ MoveCount(bfResult) <= MoveCount(asResult)

\* Both have returned and aStar's path is strictly longer.
C2_Witness ==
    /\ pc = "done"
    /\ GoalReachable
    /\ bfResult.found
    /\ asResult.found
    /\ MoveCount(bfResult) < MoveCount(asResult)

\* C3: for a goal that no move sequence reaches, both searchers come to an
\* end, each with an empty frontier and the empty pointer as its result.
C3_UnreachableTerminates ==
    GoalUnreachable ~> (/\ pc = "done"
                   /\ bfResult.done /\ ~bfResult.found
                   /\ asResult.done /\ ~asResult.found)

Results == {bfResult, asResult}

\* The path print_search walks: root first.
Path(result) == Reverse(result.solution)

\* C4: the path reconstructed from a returned state begins with the start
\* board and ends with a board equal to the goal board in all 16 cells.
C4_PathFromStartToGoal ==
    \A r \in Results :
        r.found =>
            /\ Path(r)[1] = start
            /\ \A i \in Cells : Path(r)[Len(Path(r))][i] = goal[i]

\* C5: whether a state is taken for the goal is decided by board equality:
\* also where different boards have the same hash, the board of a returned
\* state is the goal board, and the root is returned from the entry test
\* only when the start board is the goal board.
C5_GoalDecidedByEquality ==
    \A r \in Results :
        r.found =>
            /\ r.solution[1] = goal
            /\ r.created = 1 => start = goal

\* The proper ancestors of state p, from its predecessor to the root.
RECURSIVE ChainFrom(_)
ChainFrom(a) == IF a = 0 THEN {} ELSE {a} \cup ChainFrom(states[a].parent_)

ProperAncestors(p) == ChainFrom(states[p].parent_)

RECURSIVE ChainIn(_, _)
ChainIn(sts, a) == IF a = 0 THEN {} ELSE {a} \cup ChainIn(sts, sts[a].parent_)

\* C6: with a hash free of collisions, the board of every state that
\* make_next_state returns differs from the board of its predecessor and of
\* every earlier ancestor; a move that undoes the previous one is rejected.
C6_NoAncestorBoard ==
    [][\A n \in (Len(states) + 1)..Len(states') :
          \A a \in ChainIn(states', states'[n].parent_) :
              states'[n].state_ # states'[a].state_]_vars

\* An expanded state that is not the root has fewer successors than legal
\* moves: the cycle check has rejected one.
C6_Witness ==
    /\ pc = "bf_loop"
    /\ \E p \in 1..Len(states) :
          /\ states[p].parent_ # 0
          /\ p \notin {search[i] : i \in 1..Len(search)}
          /\ Cardinality({n \in 1..Len(states) : states[n].parent_ = p})
                < Cardinality(LegalSuccessors(states[p].state_))

\* The state the next iteration of the running loop hands to
\* make_next_state.
NextParents ==
    IF pc = "bf_loop" /\ search # <<>> THEN {back(search)}
    ELSE IF pc = "as_loop" /\ searchPQ # <<>> THEN {searchPQ[Top(searchPQ)][1]}
    ELSE {}

\* The cell next to cell a in direction m, off the grid or not.
OffGrid(a, m) ==
    \/ m = LEFT /\ Col(a) = 0
    \/ m = RIGHT /\ Col(a) = GridSide - 1
    \/ m = UP /\ Row(a) = 0
    \/ m = DOWN /\ Row(a) = GridSide - 1

Neighbour(a, m) ==
    CASE m = LEFT -> a - 1
      [] m = RIGHT -> a + 1
      [] m = UP -> a - GridSide
      [] OTHER -> a + GridSide

\* The board after the agent of state p has moved in direction m.
BoardAfter(p, m) ==
    LET b == states[p].state_
        a == CHOOSE i \in Cells : b[i] = Agent
        n == Neighbour(a, m)
    IN  [i \in Cells |-> IF i = a THEN b[n] ELSE IF i = n THEN Agent ELSE b[i]]

AgentCell(p) == CHOOSE i \in Cells : states[p].state_[i] = Agent

\* C7 as claimed: the walk starts at the predecessor of state's predecessor,
\* so a move is rejected exactly when its hash is that of this ancestor or
\* of an earlier one, and the hash of state's predecessor does not count.
C7_WalkSkipsPredecessor ==
    \A p \in NextParents : \A m \in Moves :
        ~OffGrid(AgentCell(p), m) =>
            (make_next_state(p, m) = <<>>
             <=> \E a \in ProperAncestors(p) \ {states[p].parent_} :
                    states[a].hash_ = make_hash(BoardAfter(p, m)))

\* C7 as amended: the walk starts at state's predecessor; a move is rejected
\* exactly when its hash is that of state's predecessor or of an earlier
\* ancestor, and the hash of state itself does not count.
C7_WalkStartsAtPredecessor ==
    \A p \in NextParents : \A m \in Moves :
        ~OffGrid(AgentCell(p), m) =>
            (make_next_state(p, m) = <<>>
             <=> \E a \in ProperAncestors(p) :
                    states[a].hash_ = make_hash(BoardAfter(p, m)))

\* A state three moves from the root is about to be expanded, and one of
\* its moves is rejected for the hash of its own predecessor alone.
C7_Witness ==
    \E p \in NextParents : \E m \in Moves :
        /\ Cardinality(ProperAncestors(p)) = 3
        /\ ~OffGrid(AgentCell(p), m)
        /\ make_next_state(p, m) = <<>>
        /\ make_hash(BoardAfter(p, m)) = states[states[p].parent_].hash_
        /\ \A a \in ProperAncestors(p) \ {states[p].parent_} :
               states[a].hash_ # make_hash(BoardAfter(p, m))

\* C8: when the start board equals the goal board, each searcher returns
\* from its entry test, before any expansion: the root it has just created,
\* a state without predecessor whose path is the one board, zero moves.
C8_StartIsGoalReturnsRoot ==
    start = goal =>
        /\ pc \notin {"bf_loop", "as_loop"}
        /\ \A r \in Results :
              r.done =>
                  /\ r.found
                  /\ Path(r) = <<start>>
                  /\ MoveCount(r) = 0
                  /\ r.attempts = 0
                  /\ r.created = 1
                  /\ Len(states) = 1
                  /\ states[1].parent_ = 0

\* Both searchers have returned for a start with blocks that is its own
\* goal.
C8_Witness ==
    /\ start = goal
    /\ HasBlocks(start)
    /\ pc = "done"
    /\ bfResult.done /\ asResult.done

\* The least number of orthogonal single-cell steps between two cells.
GridDistance(p, q) == Abs(Row(p) - Row(q)) + Abs(Col(p) - Col(q))

\* Start and goal hold blanks and the agent only.
AgentOnlyPair == start \in AgentOnlyBoards /\ goal \in AgentOnlyBoards

AgentDistance == GridDistance(Find(start, Agent), Find(goal, Agent))

\* C9 as claimed: on boards of blanks and the agent, the path each searcher
\* returns has as many moves as the grid distance between the two agent
\* cells, hence one move for adjacent cells.
C9_EachSearcherGridDistance ==
    AgentOnlyPair =>
        \A r \in Results :
            r.done => r.found /\ MoveCount(r) = AgentDistance

\* C9 as amended: on such boards the path of breadthFirst has as many moves
\* as the grid distance; the path of aStar has at least as many, and both
\* have exactly one move when the two cells are orthogonally adjacent.
C9_BreadthFirstGridDistance ==
    AgentOnlyPair =>
        /\ bfResult.done =>
              bfResult.found /\ MoveCount(bfResult) = AgentDistance
        /\ asResult.done =>
              /\ asResult.found
              /\ MoveCount(asResult) >= AgentDistance
              /\ AgentDistance = 1 => MoveCount(asResult) = 1

\* On boards of blanks and the agent, breadthFirst has returned a path of
\* the grid distance and aStar a longer one.
C9_Witness ==
    /\ AgentOnlyPair
    /\ pc = "done"
    /\ bfResult.found /\ MoveCount(bfResult) = AgentDistance
    /\ asResult.found /\ MoveCount(asResult) > AgentDistance
    /\ AgentDistance >= 2

\* The cycle check rejects move m of state p: the move stays on the grid
\* and the hash of its board is cached in a proper ancestor of p.
CycleRejects(p, m) ==
    /\ ~OffGrid(AgentCell(p), m)
    /\ \E a \in ProperAncestors(p) :
          states[a].hash_ = make_hash(BoardAfter(p, m))

\* C10: make_next_state returns the empty result exactly when the move
\* leaves the grid or the cycle check rejects it; otherwise it returns a
\* state whose predecessor is the input state and whose board is the input
\* board with the agent cell and its neighbour in that direction swapped,
\* the 14 other cells unchanged.
C10_EmptyOrSwapped ==
    \A p \in NextParents : \A m \in Moves :
        LET a == AgentCell(p)
            n == Neighbour(a, m)
            b == states[p].state_
            next == make_next_state(p, m)
        IN  /\ next = <<>> <=> (OffGrid(a, m) \/ CycleRejects(p, m))
            /\ next # <<>> =>
                  /\ next[1].parent_ = p
                  /\ next[1].state_[a] = b[n]
                  /\ next[1].state_[n] = b[a]
                  /\ \A i \in Cells \ {a, n} : next[1].state_[i] = b[i]
                  /\ Cardinality({i \in Cells : next[1].state_[i] # b[i]}) <= 2

\* The state to expand has one move that leaves the grid, one that the
\* cycle check rejects and one that swaps the agent with a block.
C10_Witness ==
    \E p \in NextParents :
        /\ \E m \in Moves :
              OffGrid(AgentCell(p), m) /\ make_next_state(p, m) = <<>>
        /\ \E m \in Moves :
              CycleRejects(p, m) /\ make_next_state(p, m) = <<>>
        /\ \E m \in Moves :
              /\ make_next_state(p, m) # <<>>
              /\ states[p].state_[Neighbour(AgentCell(p), m)]
                     \notin {Agent, Blank}

\* How often symbol c occurs on a board.
Count(board, c) == Cardinality({i \in Cells : board[i] = c})

\* The states a step creates: all of them where a search starts, the ones
\* appended where it goes on.
Created ==
    IF pc' # pc THEN 1..Len(states') ELSE (Len(states) + 1)..Len(states')

\* C11: every state a search creates holds exactly one agent marker and
\* each symbol as often as the start board holds it.
C11_SymbolsPreserved ==
    [][\A n \in Created :
          /\ Count(states'[n].state_, Agent) = 1
          /\ \A i \in Cells :
                Count(states'[n].state_, start[i]) = Count(start, start[i])]_vars

\* A state three moves from the root, with a block of the start board on
\* another cell, among more than ten created states.
C11_Witness ==
    /\ Len(states) > 10
    /\ \E n \in 1..Len(states) :
          /\ Cardinality(ChainFrom(n)) = MaxDepth + 1
          /\ \E k \in 1..MaxBlocks :
                /\ start[LabelCell[k]] = Labels[k]
                /\ states[n].state_[LabelCell[k]] # Labels[k]

\* The sum, over the cells where the two boards differ, of the distance
\* between the cell and the first cell of the state board that holds the
\* goal's symbol (BoardSize when none does).
RECURSIVE IndexDistanceFrom(_, _, _)
IndexDistanceFrom(state, goalBoard, i) ==
    IF i = BoardSize THEN 0
    ELSE (IF state[i] # goalBoard[i]
          THEN Abs(Find(state, goalBoard[i]) - i)
          ELSE 0)
         + IndexDistanceFrom(state, goalBoard, i + 1)

IndexDistance(state, goalBoard) == IndexDistanceFrom(state, goalBoard, 0)

\* The entries of aStar's frontier while aStar runs.
Scored ==
    IF pc = "as_loop" THEN {searchPQ[j] : j \in 1..Len(searchPQ)} ELSE {}

\* C12: the score calc_score gives a state against the goal is that sum,
\* also where the symbol is found at a smaller index than the cell.
C12_ScoreIsIndexDistance ==
    \A e \in Scored : e[2] = IndexDistance(states[e[1]].state_, goal)

\* C13: the score of a state against the goal is zero exactly when its
\* board is the goal board in all 16 cells.
C13_ZeroScoreIffGoal ==
    /\ pc = "as_loop" => calc_score(goal, goal) = 0
    /\ \A e \in Scored :
          e[2] = 0 <=> \A i \in Cells : states[e[1]].state_[i] = goal[i]

\* The distance of state n from the root along the parent links.
RECURSIVE DepthIn(_, _)
DepthIn(sts, n) == IF sts[n].parent_ = 0 THEN 0 ELSE 1 + DepthIn(sts, sts[n].parent_)

\* The direction of the move that made state n out of its parent.
MoveIn(sts, n) ==
    LET from == Find(sts[sts[n].parent_].state_, Agent)
        to == Find(sts[n].state_, Agent)
    IN  CHOOSE m \in Moves : ~OffGrid(from, m) /\ Neighbour(from, m) = to

\* C15: breadthFirst expands the state inserted first among those in the
\* frontier, and inserts the successors of that state in the order left,
\* up, right, down, each as the newest element; the depth of the state
\* expanded next is not smaller than the depth of the one just expanded.
C15_FirstInFirstOut ==
    [][(pc = "bf_loop" /\ search # <<>>) =>
          LET p == back(search)
              new == (Len(states) + 1)..Len(states')
          IN  /\ \A i \in 1..Len(search) : p <= search[i]
              /\ \A n \in new : states'[n].parent_ = p
              /\ \A n1, n2 \in new :
                    n1 < n2 => MoveIn(states', n1) < MoveIn(states', n2)
              /\ pc' = "bf_loop" =>
                    /\ Len(search') = Len(search) - 1 + Cardinality(new)
                    /\ \A i \in 1..Len(search') :
                          search'[i] =
                             IF i <= Cardinality(new) THEN Len(states') + 1 - i
                             ELSE search[i - Cardinality(new)]
                    /\ search' # <<>> =>
                          DepthIn(states', back(search')) >= DepthIn(states, p)]_vars

\* breadthFirst is about to expand a state two moves from the root while
\* the frontier also holds states three moves from it, and the last
\* expansion has inserted three successors.
C15_Witness ==
    /\ pc = "bf_loop"
    /\ search # <<>>
    /\ DepthIn(states, back(search)) = 2
    /\ DepthIn(states, search[1]) = 3
    /\ Len(search) >= 3
    /\ states[search[1]].parent_ = states[search[3]].parent_

\* The entries of a priority queue.
Entries(pq) == {pq[j] : j \in 1..Len(pq)}

\* C16: in every iteration of aStar's loop the score of the entry removed
\* is not above the score of any entry that stays, and the entries put in
\* (the root on entry, then the successors of the removed state) carry the
\* value calc_score gives their boards against the goal; the entries that
\* stay are kept as they were.
C16_LowestScoreRemoved ==
    [][/\ (pc = "as_enter" /\ pc' = "as_loop") =>
             searchPQ' = <<<<1, Score(build', states'[1].state_, goal)>>>>
       /\ (pc = "as_loop" /\ searchPQ # <<>>) =>
             LET removed == Entries(searchPQ) \ Entries(searchPQ')
                 added == Entries(searchPQ') \ Entries(searchPQ)
             IN  /\ Cardinality(removed) = 1
                 /\ \A e \in removed : \A f \in Entries(searchPQ) :
                        e[2] <= f[2]
                 /\ \A e \in added :
                        /\ e[1] > Len(states)
                        /\ \A r \in removed : states'[e[1]].parent_ = r[1]
                        /\ e[2] = calc_score(states'[e[1]].state_, goal)
                 /\ Len(searchPQ') = Len(searchPQ) - 1 + Cardinality(added)]_vars

\* aStar is about to remove an entry that is neither the first nor the
\* last of five or more, whose scores are not all equal.
C16_Witness ==
    /\ pc = "as_loop"
    /\ build = "signed"
    /\ Len(searchPQ) >= 5
    /\ Top(searchPQ) \notin {1, Len(searchPQ)}
    /\ \E e \in Entries(searchPQ) : e[2] > searchPQ[Top(searchPQ)][2]

\* C17: a searcher returns the empty result only for a goal that no
\* sequence of legal moves reaches; for a reachable goal the cycle check
\* leaves a path to it and the searcher returns a state (breadthFirst on
\* every pair, aStar on the pairs whose search is run to its end).
C17_NoSolutionOnlyIfUnreachable ==
    /\ [](\A r \in Results : (r.done /\ ~r.found) => GoalUnreachable)
    /\ GoalReachable ~> (bfResult.found /\ (Exhaustive => asResult.found))

\* Both searchers have returned a state for a reachable goal, aStar after
\* more expansions than a cut search is allowed, with moves rejected on
\* the way (fewer states created than three per expansion).
C17_Witness ==
    /\ pc = "done"
    /\ GoalReachable
    /\ bfResult.found /\ asResult.found
    /\ asResult.attempts > MaxAttempts
    /\ asResult.created < 3 * asResult.attempts

\* The states a deque and a priority queue hold.
FrontierOf(dq, pq) == {dq[i] : i \in 1..Len(dq)} \cup {pq[j][1] : j \in 1..Len(pq)}

\* The moves of state p up to direction last that make_next_state accepts.
AcceptedUpTo(p, last) ==
    {m \in Moves : /\ m <= last
                   /\ ~OffGrid(AgentCell(p), m)
                   /\ ~CycleRejects(p, m)}

\* C18: the goal is tested when a successor is generated: no state in a
\* frontier has the goal's board, and an expansion that generates such a
\* state returns it at once, as the last state created, the directions
\* after it not being generated; an expansion that generates none goes on.
C18_GoalTestedAtGeneration ==
    [][/\ \A n \in FrontierOf(search', searchPQ') : states'[n].state_ # goal
       /\ \A p \in NextParents :
             LET new == (Len(states) + 1)..Len(states')
                 hits == {n \in new : states'[n].state_ = goal}
                 result == IF pc = "bf_loop" THEN bfResult' ELSE asResult'
             IN  IF hits = {}
                 THEN pc' = pc /\ ~result.done
                 ELSE /\ hits = {Len(states')}
                      /\ pc' # pc
                      /\ result.found
                      /\ result.solution[1] = goal
                      /\ Cardinality(new) = Cardinality(
                            AcceptedUpTo(p, MoveIn(states', Len(states'))))]_vars

\* breadthFirst has just returned a state made by a move LEFT or UP while
\* its parent had a later direction that make_next_state accepts, and the
\* frontier was not empty.
C18_Witness ==
    /\ pc = "as_enter"
    /\ bfResult.found
    /\ search # <<>>
    /\ Len(states) > 1
    /\ states[Len(states)].state_ = goal
    /\ \E m \in Moves :
          /\ m > MoveIn(states, Len(states))
          /\ m \in AcceptedUpTo(states[Len(states)].parent_, DOWN)

\* C19: in the path of a returned state every board comes from the one
\* before it by one legal move: the agent and one orthogonally adjacent
\* cell have changed places and the 14 other cells are the same.
C19_PathOfLegalMoves ==
    \A r \in Results :
        r.found =>
            \A k \in 1..(Len(Path(r)) - 1) :
                LET b == Path(r)[k]
                    c == Path(r)[k + 1]
                    from == Find(b, Agent)
                    to == Find(c, Agent)
                IN  /\ Adjacent(from, to)
                    /\ c[from] = b[to]
                    /\ Cardinality({i \in Cells : b[i] # c[i]}) = 2
                    /\ \A i \in Cells \ {from, to} : c[i] = b[i]

\* aStar has returned a path of more moves than MaxDepth on which the
\* agent changes places with a block, across a row boundary of the flat
\* index at least once (a move UP or DOWN).
C19_Witness ==
    /\ pc = "done"
    /\ asResult.found
    /\ MoveCount(asResult) > MaxDepth
    /\ \E k \in 1..(Len(Path(asResult)) - 1) :
          Path(asResult)[k][Find(Path(asResult)[k + 1], Agent)] \notin {Agent, Blank}
    /\ \E k \in 1..(Len(Path(asResult)) - 1) :
          Row(Find(Path(asResult)[k], Agent)) # Row(Find(Path(asResult)[k + 1], Agent))

\* C20: the cycle check looks at one branch only.  An expansion that goes
\* on puts into the frontier a state for every move that stays on the grid
\* and that the walk along the expanded state's own ancestors does not
\* reject, whatever boards states of other branches have; so the frontier
\* can hold two states with the same board (the witness).
C20_CycleCheckPerBranch ==
    [][\A p \in NextParents :
          pc' = pc =>
              \A m \in AcceptedUpTo(p, DOWN) :
                  \E n \in FrontierOf(search', searchPQ') :
                      /\ n > Len(states)
                      /\ states'[n].parent_ = p
                      /\ states'[n].state_ = BoardAfter(p, m)]_vars

\* breadthFirst's frontier holds two states with the same board, made
\* from different parents, neither an ancestor of the other.
C20_Witness ==
    /\ pc = "bf_loop"
    /\ \E n1, n2 \in FrontierOf(search, <<>>) :
          /\ n1 # n2
          /\ states[n1].state_ = states[n2].state_
          /\ states[n1].parent_ # states[n2].parent_
          /\ n1 \notin ChainFrom(n2)
          /\ n2 \notin ChainFrom(n1)

====
